---- MODULE Spec2Model ----
(***************************************************************************)
(* Model of the offline split / persist / reload workflow of               *)
(* classificacao_de_compras:                                               *)
(*   scripts/data_splitting.py  DataSplitter (load_dataset, split_data,    *)
(*                              identify_categorical_features, save_splits)*)
(*   scripts/load_splits.py     load_data_splits                           *)
(*   scripts/train_model.py     catboost_pools                             *)
(* Library calls made by the code (train_test_split, numpy RandomState,    *)
(* pathlib, pickle) are modelled by what they do at the place of the call. *)
(***************************************************************************)
EXTENDS Integers, Sequences, FiniteSets, TLC

VARIABLES
    dataset,        \* split: the labelled table handed to split_data
    splitter,       \* split: the DataSplitter (test_size, validation_size, random_state)
    np_global_rng,  \* split: state of numpy's process-wide generator
    runs,           \* split: results of the split_data calls made so far
    countRun,       \* sizes: input and result of split_data seen through class counts
    fs,             \* persistence: directory path -> (file name -> bytes)
    saves,          \* persistence: the save_splits runs so far
    loaded,         \* persistence: outcome of the latest load_data_splits
    loader,         \* load_dataset: disk entry, path and outcome
    catRun,         \* identify_categorical_features: table and result
    poolRun         \* catboost_pools: arguments and outcome

vars == <<dataset, splitter, np_global_rng, runs, countRun, fs, saves, loaded,
          loader, catRun, poolRun>>

(***************************************************************************)
(* Bounds of the model.                                                    *)
(***************************************************************************)
MaxRows == 9
MaxRuns == 2
RngStates == 4
CountSlack == 3
MaxSaves == 2
MaxInterrupted == 1
MaxNameLen == 3
MaxCols == 3
MaxPoolRows == 2

(***************************************************************************)
(* Python values.                                                          *)
(***************************************************************************)
\* An optional integer: None is the empty set, the integer n is {n}.
None == {}
Some(n) == {n}
IsNone(o) == o = {}
TheInt(o) == CHOOSE n \in o : TRUE

\* A float fraction, kept as an exact numerator / denominator pair.
Frac(n, d) == [num |-> n, den |-> d]

Min(a, b) == IF a <= b THEN a ELSE b

\* LET x == v IN Body(x), with v evaluated once.
Let(v, Body(_)) == CHOOSE r \in {Body(x) : x \in {v}} : TRUE

RECURSIVE SeqSum(_)
SeqSum(s) == IF s = <<>> THEN 0 ELSE Head(s) + SeqSum(Tail(s))

Range(s) == {s[i] : i \in DOMAIN s}

\* The elements of a finite set of integers, ascending.
RECURSIVE SortedSeq(_)
SortedSeq(S) ==
    IF S = {} THEN <<>>
    ELSE LET m == CHOOSE x \in S : \A y \in S : x <= y
         IN  <<m>> \o SortedSeq(S \ {m})

\* The elements of a finite set of integers, descending.
RECURSIVE SortedSeqDesc(_)
SortedSeqDesc(S) ==
    IF S = {} THEN <<>>
    ELSE LET m == CHOOSE x \in S : \A y \in S : x >= y
         IN  <<m>> \o SortedSeqDesc(S \ {m})

(***************************************************************************)
(* numpy.random.RandomState, as the split uses it.  The generator is a     *)
(* deterministic stream that is a function of its state alone;             *)
(* RandomState(seed) starts the stream at a state fixed by the seed.       *)
(***************************************************************************)
RngStateSet == 0 .. (RngStates - 1)

RandomState(seed) == seed % RngStates

RngAdvance(s) == (s + 1) % RngStates

\* rk_interval(max): a draw in 0 .. max, and the generator after it.
RngInterval(s, max) == [val |-> s % (max + 1), rng |-> RngAdvance(s)]

\* RandomState.shuffle: for i in reversed(range(1, n)): j = rk_interval(i);
\* x[i], x[j] = x[j], x[i]   (positions are 1-based here).
RECURSIVE Shuffle(_, _, _)
Shuffle(x, i, s) ==
    IF i < 2 THEN [arr |-> x, rng |-> s]
    ELSE Let(RngInterval(s, i - 1), LAMBDA d :
         Let([x EXCEPT ![i] = x[d.val + 1], ![d.val + 1] = x[i]], LAMBDA y :
             Shuffle(y, i - 1, d.rng)))

\* RandomState.permutation(a): a shuffled copy of the array a.
RngPermutation(a, s) ==
    Let(a, LAMBDA x : Let(s, LAMBDA s0 : Shuffle(x, Len(x), s0)))

\* RandomState.choice(a, size, replace=False): permutation(len(a))[:size],
\* used to index a.
RngChoice(a, size, s) ==
    Let(RngPermutation([k \in 1 .. Len(a) |-> k], s), LAMBDA p :
        [arr |-> [k \in 1 .. size |-> a[p.arr[k]]], rng |-> p.rng])

\* sklearn check_random_state: None is numpy's process-wide generator, an
\* integer a fresh RandomState(seed).
CheckRandomState(random_state, g) ==
    IF IsNone(random_state) THEN g ELSE RandomState(TheInt(random_state))

\* The process-wide generator after a call: it moves only when it was used.
GlobalAfter(random_state, g, used) ==
    IF IsNone(random_state) THEN used ELSE g

(***************************************************************************)
(* sklearn.model_selection.train_test_split(x, y, test_size=..,            *)
(* stratify=y, random_state=.., shuffle=True), as split_data calls it.     *)
(***************************************************************************)
\* _validate_shuffle_split: a float test_size must lie strictly inside
\* (0, 1); n_test = ceil(test_size * n_samples), n_train is the complement
\* and must not be empty.
ValidateShuffleSplit(n_samples, test_size) ==
    IF ~(0 < test_size.num /\ test_size.num < test_size.den)
    THEN [err |-> "ValueError", n_train |-> 0, n_test |-> 0]
    ELSE LET n_test  == (test_size.num * n_samples + test_size.den - 1)
                            \div test_size.den
             n_train == n_samples - n_test
         IN  IF n_train = 0
             THEN [err |-> "ValueError", n_train |-> 0, n_test |-> 0]
             ELSE [err |-> "", n_train |-> n_train, n_test |-> n_test]

\* _approximate_mode, the loop over the distinct remainders (largest first):
\* the classes sharing a remainder get one more draw each, a random subset of
\* them when fewer draws than classes are left.
RECURSIVE AddRemainders(_, _, _, _, _)
AddRemainders(floored, remainder, values, need_to_add, s) ==
    IF need_to_add = 0 \/ values = <<>> THEN [arr |-> floored, rng |-> s]
    ELSE Let(SelectSeq([k \in 1 .. Len(floored) |-> k],
                       LAMBDA k : remainder[k] = Head(values)), LAMBDA inds :
         Let(Min(Len(inds), need_to_add), LAMBDA add_now :
         Let(RngChoice(inds, add_now, s), LAMBDA pick :
         Let([k \in 1 .. Len(floored) |->
                 IF k \in Range(pick.arr) THEN floored[k] + 1 ELSE floored[k]],
             LAMBDA bumped :
         Let(Tail(values), LAMBDA rest :
             AddRemainders(bumped, remainder, rest, need_to_add - add_now,
                           pick.rng))))))

\* _approximate_mode(class_counts, n_draws, rng): the per-class number of
\* draws closest to class_counts / sum * n_draws.  The remainders are kept as
\* numerators over the common denominator sum(class_counts).
ApproximateMode(class_counts, n_draws, s) ==
    Let(SeqSum(class_counts), LAMBDA total :
    Let([k \in 1 .. Len(class_counts) |-> (class_counts[k] * n_draws) \div total],
        LAMBDA floored :
    Let([k \in 1 .. Len(class_counts) |-> (class_counts[k] * n_draws) % total],
        LAMBDA remainder :
    Let(n_draws - SeqSum(floored), LAMBDA need :
        IF need > 0
        THEN AddRemainders(floored, remainder,
                           SortedSeqDesc(Range(remainder)), need, s)
        ELSE [arr |-> floored, rng |-> s]))))

\* StratifiedShuffleSplit._iter_indices, the checks and the two allocations:
\* every class needs 2 members, and each side at least one row per class.
StratifiedCountsOf(class_counts, test_size, s) ==
    LET n_classes == Len(class_counts)
        bad       == [err |-> "ValueError", n_i |-> <<>>, t_i |-> <<>>, rng |-> s]
    IN  Let(ValidateShuffleSplit(SeqSum(class_counts), test_size), LAMBDA sz :
        IF sz.err # "" THEN bad
        ELSE IF \E k \in 1 .. n_classes : class_counts[k] < 2 THEN bad
        ELSE IF sz.n_train < n_classes THEN bad
        ELSE IF sz.n_test < n_classes THEN bad
        ELSE Let(ApproximateMode(class_counts, sz.n_train, s), LAMBDA tr :
             Let([k \in 1 .. n_classes |-> class_counts[k] - tr.arr[k]], LAMBDA left :
             Let(ApproximateMode(left, sz.n_test, tr.rng), LAMBDA te :
                 [err |-> "", n_i |-> tr.arr, t_i |-> te.arr, rng |-> te.rng]))))

StratifiedCounts(class_counts, test_size, s) ==
    Let(class_counts, LAMBDA cc : Let(s, LAMBDA s0 :
        StratifiedCountsOf(cc, test_size, s0)))

\* The test rows of one class: perm_indices_class_i[n_i : n_i + t_i].
TestSlice(perm, n_i, t_i) == SubSeq(perm, n_i + 1, n_i + t_i)

\* The loop over the classes: each class's positions are permuted, the first
\* n_i go to train and the next t_i to test.
RECURSIVE AssignClasses(_, _, _, _, _, _, _)
AssignClasses(k, class_indices, n_i, t_i, train, test, s) ==
    IF k > Len(class_indices) THEN [train |-> train, test |-> test, rng |-> s]
    ELSE Let(RngPermutation(class_indices[k], s), LAMBDA p :
         Let(train \o SubSeq(p.arr, 1, n_i[k]), LAMBDA train1 :
         Let(test \o TestSlice(p.arr, n_i[k], t_i[k]), LAMBDA test1 :
         Let(k + 1, LAMBDA k1 :
             AssignClasses(k1, class_indices, n_i, t_i, train1, test1, p.rng)))))

\* _safe_indexing(a, indices): the rows of a at the given positions.
SafeIndexing(a, indices) == [k \in 1 .. Len(indices) |-> a[indices[k]]]

\* np.unique(y): the classes present, ascending.
Classes(y) == SortedSeq({y[i].val : i \in DOMAIN y})

\* train_test_split(x, y, test_size, stratify=y, random_state, shuffle=True).
\* x and y are arrays of rows; g is the process-wide generator.
TrainTestSplitOf(x, y, test_size, random_state, g) ==
    LET failed == [err |-> "ValueError", x_train |-> <<>>, x_test |-> <<>>,
                   y_train |-> <<>>, y_test |-> <<>>, g |-> g]
    IN  Let(Classes(y), LAMBDA classes :
        Let([c \in 1 .. Len(classes) |->
                SelectSeq([i \in 1 .. Len(x) |-> i],
                          LAMBDA i : y[i].val = classes[c])], LAMBDA class_indices :
        Let([c \in 1 .. Len(classes) |-> Len(class_indices[c])], LAMBDA class_counts :
        Let(StratifiedCounts(class_counts, test_size,
                             CheckRandomState(random_state, g)), LAMBDA cnt :
            IF Len(x) = 0 \/ cnt.err # "" THEN failed
            ELSE Let(AssignClasses(1, class_indices, cnt.n_i, cnt.t_i,
                                   <<>>, <<>>, cnt.rng), LAMBDA asg :
                 Let(RngPermutation(asg.train, asg.rng), LAMBDA train :
                 Let(RngPermutation(asg.test, train.rng), LAMBDA test :
                     [err |-> "",
                      x_train |-> SafeIndexing(x, train.arr),
                      x_test  |-> SafeIndexing(x, test.arr),
                      y_train |-> SafeIndexing(y, train.arr),
                      y_test  |-> SafeIndexing(y, test.arr),
                      g |-> GlobalAfter(random_state, g, test.rng)])))))))

TrainTestSplit(x, y, test_size, random_state, g) ==
    Let(x, LAMBDA x0 : Let(y, LAMBDA y0 : Let(g, LAMBDA g0 :
        TrainTestSplitOf(x0, y0, test_size, random_state, g0))))

(***************************************************************************)
(* DataSplitter.split_data.  A table is [columns, rows]; a row is          *)
(* [id, vals] with vals a function of the column names; a label column is  *)
(* [name, rows] with rows [id, val].                                       *)
(***************************************************************************)
TargetCol == "Elegivel?"       \* target_col='Elegível?'
FeatureCol == "Valor"

\* dataset.drop(target_col, axis=1)
DropKeepingTarget(df, col) == df

Drop(df, col) ==
    LET keep == SelectSeq(df.columns, LAMBDA c : c # col)
    IN  [columns |-> keep,
         rows |-> [i \in 1 .. Len(df.rows) |->
                      [id |-> df.rows[i].id,
                       vals |-> [c \in Range(keep) |-> df.rows[i].vals[c]]]]]

\* dataset[target_col]
Column(df, col) ==
    [name |-> col,
     rows |-> [i \in 1 .. Len(df.rows) |->
                  [id |-> df.rows[i].id, val |-> df.rows[i].vals[col]]]]

\* val_size_adjusted = self.validation_size / (1 - self.test_size)
ValSizeUnadjusted(self) == self.validation_size

ValSizeAdjusted(self) ==
    Frac(self.validation_size.num * self.test_size.den,
         self.validation_size.den * (self.test_size.den - self.test_size.num))

\* random_state=self.random_state, in both calls of train_test_split
StageSeedDropped(self) == None

StageSeed(self) == self.random_state

Failed(g) ==
    [err |-> "ValueError", g |-> g,
     x_train |-> <<>>, x_val |-> <<>>, x_test |-> <<>>,
     y_train |-> <<>>, y_val |-> <<>>, y_test |-> <<>>]

SplitData(self, df, target_col, g) ==
    Let(Drop(df, target_col), LAMBDA x :
    Let(Column(df, target_col), LAMBDA y :
    Let(TrainTestSplit(x.rows, y.rows, self.test_size, StageSeed(self), g),
        LAMBDA s1 :
        IF s1.err # "" THEN Failed(s1.g)
        ELSE Let(TrainTestSplit(s1.x_train, s1.y_train, ValSizeAdjusted(self),
                                StageSeed(self), s1.g), LAMBDA s2 :
             IF s2.err # "" THEN Failed(s2.g)
             ELSE [err |-> "", g |-> s2.g,
                   x_train |-> [columns |-> x.columns, rows |-> s2.x_train],
                   x_val   |-> [columns |-> x.columns, rows |-> s2.x_test],
                   x_test  |-> [columns |-> x.columns, rows |-> s1.x_test],
                   y_train |-> [name |-> y.name, rows |-> s2.y_train],
                   y_val   |-> [name |-> y.name, rows |-> s2.y_test],
                   y_test  |-> [name |-> y.name, rows |-> s1.y_test]]))))

(***************************************************************************)
(* Values the variables of a component hold while another one is checked.  *)
(***************************************************************************)
SplitIdle ==
    /\ dataset = [columns |-> <<>>, rows |-> <<>>]
    /\ splitter = [test_size |-> Frac(1, 5), validation_size |-> Frac(1, 5),
                   random_state |-> None]
    /\ np_global_rng = 0
    /\ runs = <<>>

CountIdle == countRun = [done |-> FALSE]

PersistIdle ==
    /\ fs = <<>>
    /\ saves = <<>>
    /\ loaded = [called |-> FALSE]

LoaderIdle == loader = [called |-> FALSE]

CatIdle == catRun = [called |-> FALSE]

PoolIdle == poolRun = [called |-> FALSE]

splitVars == <<dataset, splitter, np_global_rng, runs>>
persistVars == <<fs, saves, loaded>>

(***************************************************************************)
(* The splitter: a table, a DataSplitter, and calls of split_data.         *)
(***************************************************************************)
Labels == {0, 1}

\* A table: rows indexed 1 .. n, one feature column and the target column.
MakeTable(labels) ==
    [columns |-> <<FeatureCol, TargetCol>>,
     rows |-> [i \in 1 .. Len(labels) |->
                  [id |-> i,
                   vals |-> [c \in {FeatureCol, TargetCol} |->
                                IF c = TargetCol THEN labels[i] ELSE 0]]]]

\* The label columns: n rows of which the first k carry one label and the
\* rest the other, for every n in MaxRows - 2 .. MaxRows and every k.
LabelColumns ==
    {[i \in 1 .. n |-> IF i <= k THEN a ELSE 1 - a] :
        n \in (MaxRows - 2) .. MaxRows, k \in 0 .. MaxRows, a \in Labels}

Tables == {MakeTable(l) : l \in LabelColumns}

\* (test_size, validation_size); the last pair has t + v = 1.
FractionPairs ==
    {<<Frac(1, 5), Frac(1, 5)>>, <<Frac(1, 4), Frac(1, 4)>>,
     <<Frac(1, 4), Frac(1, 2)>>, <<Frac(1, 2), Frac(1, 4)>>,
     <<Frac(1, 2), Frac(1, 2)>>}

Seeds == {None, Some(0), Some(1)}

\* DataSplitter.__init__
NewDataSplitter(test_size, validation_size, random_state) ==
    [test_size |-> test_size, validation_size |-> validation_size,
     random_state |-> random_state]

InitSplit ==
    /\ dataset \in Tables
    /\ \E fr \in FractionPairs, seed \in Seeds :
           splitter = NewDataSplitter(fr[1], fr[2], seed)
    /\ np_global_rng \in RngStateSet
    /\ runs = <<>>
    /\ CountIdle /\ PersistIdle /\ LoaderIdle /\ CatIdle /\ PoolIdle

\* One call spliter.split_data(dataset) with the default target_col.
SplitDataCall ==
    /\ Len(runs) < MaxRuns
    /\ LET r == SplitData(splitter, dataset, TargetCol, np_global_rng)
       IN  /\ runs' = Append(runs, [err |-> r.err,
                                    x_train |-> r.x_train, x_val |-> r.x_val,
                                    x_test |-> r.x_test, y_train |-> r.y_train,
                                    y_val |-> r.y_val, y_test |-> r.y_test])
           /\ np_global_rng' = r.g
    /\ UNCHANGED <<dataset, splitter, countRun, persistVars, loader, catRun, poolRun>>

\* A new run of the script: a fresh interpreter, whose process-wide generator
\* is seeded from the operating system's entropy.
NewProcess ==
    /\ Len(runs) < MaxRuns
    /\ np_global_rng' \in RngStateSet \ {np_global_rng}
    /\ UNCHANGED <<dataset, splitter, runs, countRun, persistVars, loader,
                   catRun, poolRun>>

NextSplit == SplitDataCall \/ NewProcess

SpecSplit == InitSplit /\ [][NextSplit]_vars

(***************************************************************************)
(* Properties of split_data.                                               *)
(***************************************************************************)
Ids(rows) == [i \in 1 .. Len(rows) |-> rows[i].id]

Partitions == {"train", "val", "test"}

XOf(run, p) ==
    IF p = "train" THEN run.x_train
    ELSE IF p = "val" THEN run.x_val ELSE run.x_test

YOf(run, p) ==
    IF p = "train" THEN run.y_train
    ELSE IF p = "val" THEN run.y_val ELSE run.y_test

LessThanOne(fr) == 0 < fr.num /\ fr.num < fr.den

ValidFractions(self) ==
    /\ LessThanOne(self.test_size)
    /\ LessThanOne(self.validation_size)
    /\ self.test_size.num * self.validation_size.den
         + self.validation_size.num * self.test_size.den
       < self.test_size.den * self.validation_size.den

Returned(run) == run.err = ""

\* C1: whenever split_data returns for fractions t, v in (0,1) with
\* t + v < 1, the three partitions are pairwise row-disjoint, hold no row
\* twice, their sizes sum to the size of the source, x_* and y_* of a
\* partition hold the same rows in the same order with the source's labels,
\* and the target column is in no x_* table.
SplitIsPartition ==
    \A r \in DOMAIN runs :
        (Returned(runs[r]) /\ ValidFractions(splitter)) =>
            /\ Len(runs[r].x_train.rows) + Len(runs[r].x_val.rows)
                 + Len(runs[r].x_test.rows) = Len(dataset.rows)
            /\ \A p, q \in Partitions :
                   p # q => Range(Ids(XOf(runs[r], p).rows))
                              \cap Range(Ids(XOf(runs[r], q).rows)) = {}
            /\ \A p \in Partitions :
                   /\ Cardinality(Range(Ids(XOf(runs[r], p).rows)))
                        = Len(XOf(runs[r], p).rows)
                   /\ Ids(XOf(runs[r], p).rows) = Ids(YOf(runs[r], p).rows)
                   /\ \A i \in DOMAIN YOf(runs[r], p).rows :
                          YOf(runs[r], p).rows[i].val
                            = dataset.rows[YOf(runs[r], p).rows[i].id].vals[TargetCol]
                   /\ TargetCol \notin Range(XOf(runs[r], p).columns)
                   /\ \A i \in DOMAIN XOf(runs[r], p).rows :
                          TargetCol \notin DOMAIN XOf(runs[r], p).rows[i].vals

\* A returned split of a table with both classes, for valid fractions.
SplitIsPartitionWitness ==
    \E r \in DOMAIN runs :
        /\ Returned(runs[r]) /\ ValidFractions(splitter)
        /\ \A p \in Partitions : Len(XOf(runs[r], p).rows) > 0
        /\ {dataset.rows[i].vals[TargetCol] : i \in DOMAIN dataset.rows} = Labels

\* C6: split_data never returns a split in which some partition holds no
\* member of a class that is present in the source.
EveryClassInEveryPartition ==
    \A r \in DOMAIN runs :
        Returned(runs[r]) =>
            \A p \in Partitions :
                \A i \in DOMAIN dataset.rows :
                    \E j \in DOMAIN YOf(runs[r], p).rows :
                        YOf(runs[r], p).rows[j].val = dataset.rows[i].vals[TargetCol]

SameSplit(a, b) ==
    /\ a.err = b.err
    /\ \A p \in Partitions : XOf(a, p) = XOf(b, p) /\ YOf(a, p) = YOf(b, p)

\* C8 as stated: any two runs of split_data on the same table by splitters
\* with the same random_state and fractions return identical partitions.
SplitDeterministic ==
    \A i, j \in DOMAIN runs : SameSplit(runs[i], runs[j])

\* C8, amended: the same holds when random_state is an integer seed.
SplitDeterministicWhenSeeded ==
    \A i, j \in DOMAIN runs :
        ~IsNone(splitter.random_state) => SameSplit(runs[i], runs[j])

\* Two returned runs with an integer seed, made under different states of
\* the process-wide generator.
SplitDeterministicWitness ==
    /\ ~IsNone(splitter.random_state)
    /\ Len(runs) >= 2
    /\ Returned(runs[1]) /\ Returned(runs[2])
    /\ Len(runs[1].x_val.rows) > 1

(***************************************************************************)
(* split_data seen through the class counts alone: the sizes and the       *)
(* per-class sizes of the three partitions (the shapes and the numbers of  *)
(* eligible rows the function logs), for tables too large to enumerate     *)
(* row by row.                                                             *)
(***************************************************************************)
\* np.unique on a label column given by its counts: the labels that occur.
Present(labels, counts) ==
    SelectSeq([k \in 1 .. Len(labels) |-> [label |-> labels[k], n |-> counts[k]]],
              LAMBDA e : e.n > 0)

CountOf(cls, label) ==
    LET hit == SelectSeq(cls, LAMBDA e : e.label = label)
    IN  IF hit = <<>> THEN 0 ELSE hit[1].n

SizeOf(cls) == SeqSum([k \in 1 .. Len(cls) |-> cls[k].n])

\* One train_test_split on counts: the classes of the train side and of the
\* test side.
TrainTestCounts(cls, test_size, s) ==
    Let(cls, LAMBDA c :
    Let(StratifiedCounts([k \in 1 .. Len(c) |-> c[k].n], test_size, s), LAMBDA cnt :
        IF c = <<>> \/ cnt.err # ""
        THEN [err |-> "ValueError", train |-> <<>>, test |-> <<>>]
        ELSE [err |-> "",
              train |-> [k \in 1 .. Len(c) |-> [label |-> c[k].label, n |-> cnt.n_i[k]]],
              test  |-> [k \in 1 .. Len(c) |-> [label |-> c[k].label, n |-> cnt.t_i[k]]]]))

\* split_data on counts.  g1 and g2 are the states of the process-wide
\* generator at the two calls, read only when random_state is None.
SplitCounts(self, neg, pos, g1, g2) ==
    LET bad == [err |-> "ValueError", train |-> <<>>, val |-> <<>>, test |-> <<>>]
    IN  Let(TrainTestCounts(Present(<<0, 1>>, <<neg, pos>>), self.test_size,
                            CheckRandomState(StageSeed(self), g1)), LAMBDA s1 :
        IF s1.err # "" THEN bad
        ELSE Let(TrainTestCounts(SelectSeq(s1.train, LAMBDA e : e.n > 0),
                                 ValSizeAdjusted(self),
                                 CheckRandomState(StageSeed(self), g2)), LAMBDA s2 :
             IF s2.err # "" THEN bad
             ELSE [err |-> "", train |-> s2.train, val |-> s2.test,
                   test |-> s1.test]))

InitCount ==
    /\ \E neg \in (800 - CountSlack) .. 800, pos \in (200 - CountSlack) .. 200,
          fr \in FractionPairs, seed \in Seeds :
           countRun = [done |-> FALSE, neg |-> neg, pos |-> pos,
                       self |-> NewDataSplitter(fr[1], fr[2], seed)]
    /\ SplitIdle /\ PersistIdle /\ LoaderIdle /\ CatIdle /\ PoolIdle

SplitCountsCall ==
    /\ ~countRun.done
    /\ \E g1, g2 \in RngStateSet :
           countRun' = [countRun EXCEPT !.done = TRUE] @@
               [result |-> SplitCounts(countRun.self, countRun.neg, countRun.pos,
                                       g1, g2)]
    /\ UNCHANGED <<splitVars, persistVars, loader, catRun, poolRun>>

NextCount == SplitCountsCall

SpecCount == InitCount /\ [][NextCount]_vars

\* The end-to-end scenario: 1000 rows, 200 positives and 800 negatives,
\* t = 0.2, v = 0.2, seed 1, split_data done.
Scenario ==
    /\ countRun.done
    /\ countRun.neg = 800 /\ countRun.pos = 200
    /\ countRun.self = NewDataSplitter(Frac(1, 5), Frac(1, 5), Some(1))

\* "about n": within one twentieth of n.
About(x, n) == 20 * x >= 19 * n /\ 20 * x <= 21 * n

\* C7 as stated: test has 200 rows (about 40 positive), train about 480 rows
\* (about 96 positive), validation about 160 rows (about 32 positive).
ScenarioSizesAsStated ==
    Scenario =>
        /\ countRun.result.err = ""
        /\ SizeOf(countRun.result.test) = 200
        /\ About(CountOf(countRun.result.test, 1), 40)
        /\ About(SizeOf(countRun.result.train), 480)
        /\ About(CountOf(countRun.result.train, 1), 96)
        /\ About(SizeOf(countRun.result.val), 160)
        /\ About(CountOf(countRun.result.val, 1), 32)

\* C7, amended: test has 200 rows (40 positive); the remaining 800 rows are
\* split with v_adj = 0.25 into train, 600 rows (120 positive), and
\* validation, 200 rows (40 positive).
ScenarioSizes ==
    Scenario =>
        /\ countRun.result.err = ""
        /\ SizeOf(countRun.result.test) = 200
        /\ CountOf(countRun.result.test, 1) = 40
        /\ SizeOf(countRun.result.train) = 600
        /\ CountOf(countRun.result.train, 1) = 120
        /\ SizeOf(countRun.result.val) = 200
        /\ CountOf(countRun.result.val, 1) = 40

ScenarioWitness == Scenario /\ countRun.result.err = ""

(***************************************************************************)
(* Paths (pathlib) and pickle, as save_splits and load_data_splits use     *)
(* them.  A path is the sequence of its components; an absolute path       *)
(* starts with the component "/".                                          *)
(***************************************************************************)
IsAbsolute(path) == path # <<>> /\ path[1] = "/"

\* a / b: an absolute right operand replaces the left one.
PathJoin(a, b) == IF IsAbsolute(b) THEN b ELSE a \o b

\* Path.parent
Parent(path) == SubSeq(path, 1, Len(path) - 1)

\* Where the repository is checked out, and __file__ of the two scripts.
Checkout == <<"/", "repo">>
DataSplittingFile == Checkout \o <<"scripts", "data_splitting.py">>
LoadSplitsFile == Checkout \o <<"scripts", "load_splits.py">>

\* f"split_{random_state}"
SplitDirName(n) == "split_" \o ToString(n)

\* A pickled value is a stream of three opcodes: PROTO, the object (its
\* type and its cells) and STOP.  A cell is an integer [int |-> n] or a
\* text [str |-> s], and is written with the opcode of its type.
PickleCell(c) ==
    IF "int" \in DOMAIN c THEN [op |-> "BININT", int |-> c.int]
    ELSE [op |-> "BINUNICODE", str |-> c.str]

UnpickleCell(o) ==
    IF o.op = "BININT" THEN [int |-> o.int] ELSE [str |-> o.str]

\* pickle.dump(data, f): the bytes written.
PickleDump(v) ==
    <<[op |-> "PROTO"],
      [op |-> "OBJ", name |-> v.type,
       args |-> [k \in 1 .. Len(v.cells) |-> PickleCell(v.cells[k])]],
      [op |-> "STOP"]>>

\* pickle.load(f): the value, or the error an empty or truncated stream
\* raises.
PickleLoad(bytes) ==
    IF bytes = <<>> THEN [err |-> "EOFError"]
    ELSE IF Len(bytes) < 3 \/ bytes[1].op # "PROTO" \/ bytes[2].op # "OBJ"
            \/ bytes[Len(bytes)].op # "STOP"
         THEN [err |-> "UnpicklingError"]
         ELSE [err |-> "",
               value |-> [type |-> bytes[2].name,
                          cells |-> [k \in 1 .. Len(bytes[2].args) |->
                                        UnpickleCell(bytes[2].args[k])]]]

(***************************************************************************)
(* The file system: directory path -> (file name -> bytes).                *)
(***************************************************************************)
NoFiles == [f \in {} |-> <<>>]

\* mkdir(parents=True, exist_ok=True)
Mkdir(disk, dir) ==
    [d \in DOMAIN disk \cup {SubSeq(dir, 1, n) : n \in 1 .. Len(dir)} |->
        IF d \in DOMAIN disk THEN disk[d] ELSE NoFiles]

\* open(path, 'wb'), a write of bytes, close.
WriteFile(disk, dir, name, bytes) ==
    [disk EXCEPT ![dir] = [f \in DOMAIN disk[dir] \cup {name} |->
                              IF f = name THEN bytes ELSE disk[dir][f]]]

\* Path.exists() of dir / name
FileExists(disk, dir, name) == dir \in DOMAIN disk /\ name \in DOMAIN disk[dir]

(***************************************************************************)
(* DataSplitter.save_splits                                                *)
(***************************************************************************)
\* The keys of splits_data in main(), in insertion order.
SplitKeys ==
    <<"x_train", "x_val", "x_test", "y_train", "y_val", "y_test",
      "categorical_cols">>

\* The directory save_splits writes to.  An output_dir (or splits_path)
\* argument is a str or a Path: [isStr, parts].
SaveDir(output_dir, random_state) ==
    LET project_root == Parent(Parent(DataSplittingFile))
        base == IF output_dir.isStr THEN PathJoin(project_root, output_dir.parts)
                ELSE output_dir.parts
    IN  IF ~IsNone(random_state)
        THEN PathJoin(base, <<SplitDirName(TheInt(random_state))>>)
        ELSE base

\* for name, data in splits_data.items(): the first `count` files written in
\* full; then, when torn is not None, file count + 1 opened and left with
\* only the first TheInt(torn) opcodes of its pickle.
RECURSIVE WriteItems(_, _, _, _, _)
WriteItems(disk, dir, splits_data, i, count) ==
    IF i > count THEN disk
    ELSE WriteItems(WriteFile(disk, dir, SplitKeys[i] \o ".pkl",
                              PickleDump(splits_data[SplitKeys[i]])),
                    dir, splits_data, i + 1, count)

SaveSplitsRun(disk, splits_data, output_dir, random_state, count, torn) ==
    LET dir   == SaveDir(output_dir, random_state)
        made  == Mkdir(disk, dir)
        wrote == WriteItems(made, dir, splits_data, 1, count)
    IN  IF IsNone(torn) THEN wrote
        ELSE WriteFile(wrote, dir, SplitKeys[count + 1] \o ".pkl",
                       SubSeq(PickleDump(splits_data[SplitKeys[count + 1]]),
                              1, TheInt(torn)))

(***************************************************************************)
(* load_data_splits                                                        *)
(***************************************************************************)
required_files ==
    <<"x_train.pkl", "x_val.pkl", "x_test.pkl", "y_train.pkl", "y_val.pkl",
      "y_test.pkl", "categorical_cols.pkl">>

\* if random_state is not None
TagGivenIfTruthy(random_state) ==
    ~IsNone(random_state) /\ TheInt(random_state) # 0

TagGiven(random_state) == ~IsNone(random_state)

LoadDir(splits_path, random_state) ==
    LET project_root == Parent(Parent(LoadSplitsFile))
        base == IF splits_path.isStr THEN PathJoin(project_root, splits_path.parts)
                ELSE splits_path.parts
    IN  IF TagGiven(random_state)
        THEN PathJoin(base, <<SplitDirName(TheInt(random_state))>>)
        ELSE base

\* file_name.replace('.pkl', '')
KeyOf(file_name) == SplitKeys[CHOOSE i \in 1 .. Len(SplitKeys) :
                                 SplitKeys[i] \o ".pkl" = file_name]

\* The first loop: the first required file that does not exist, if any.
MissingFiles(disk, dir) ==
    SelectSeq(required_files, LAMBDA f : ~FileExists(disk, dir, f))

\* The second loop, from file i on: each file is opened and unpickled into
\* loaded_data; an error of pickle.load leaves the function.
RECURSIVE ReadFiles(_, _, _, _, _)
ReadFiles(disk, dir, i, opened, loaded_data) ==
    IF i > Len(required_files)
    THEN [err |-> "", missing |-> "", opened |-> opened, returned |-> TRUE,
          data |-> loaded_data]
    ELSE LET file_name == required_files[i]
             got == PickleLoad(disk[dir][file_name])
         IN  IF got.err # ""
             THEN [err |-> got.err, missing |-> "",
                   opened |-> Append(opened, file_name), returned |-> FALSE,
                   data |-> NoFiles]
             ELSE ReadFiles(disk, dir, i + 1, Append(opened, file_name),
                            [k \in DOMAIN loaded_data \cup {KeyOf(file_name)} |->
                                IF k = KeyOf(file_name) THEN got.value
                                ELSE loaded_data[k]])

\* One loop that checks each file only when its turn to be opened comes.
RECURSIVE ReadFilesLazily(_, _, _, _, _)
ReadFilesLazily(disk, dir, i, opened, loaded_data) ==
    IF i > Len(required_files)
    THEN [err |-> "", missing |-> "", opened |-> opened, returned |-> TRUE,
          data |-> loaded_data]
    ELSE IF ~FileExists(disk, dir, required_files[i])
    THEN [err |-> "FileNotFoundError", missing |-> required_files[i],
          opened |-> opened, returned |-> FALSE, data |-> NoFiles]
    ELSE LET file_name == required_files[i]
             got == PickleLoad(disk[dir][file_name])
         IN  IF got.err # ""
             THEN [err |-> got.err, missing |-> "",
                   opened |-> Append(opened, file_name), returned |-> FALSE,
                   data |-> NoFiles]
             ELSE ReadFilesLazily(disk, dir, i + 1, Append(opened, file_name),
                            [k \in DOMAIN loaded_data \cup {KeyOf(file_name)} |->
                                IF k = KeyOf(file_name) THEN got.value
                                ELSE loaded_data[k]])

LoadFilesLazily(disk, dir) == ReadFilesLazily(disk, dir, 1, <<>>, NoFiles)

LoadFiles(disk, dir) ==
    LET missing == MissingFiles(disk, dir)
    IN  IF missing # <<>>
        THEN [err |-> "FileNotFoundError", missing |-> missing[1],
              opened |-> <<>>, returned |-> FALSE, data |-> NoFiles]
        ELSE ReadFiles(disk, dir, 1, <<>>, NoFiles)

LoadDataSplits(disk, splits_path, random_state) ==
    LoadFiles(disk, LoadDir(splits_path, random_state))

(***************************************************************************)
(* Persistence: runs of save_splits, complete or cut short, and calls of   *)
(* load_data_splits, one after the other on one file system.               *)
(***************************************************************************)
\* The bundle the n-th run of the script builds, as main() does: three
\* feature tables (text), three integer label columns and the list of the
\* categorical column names.
KeyIndex(key) == CHOOSE i \in 1 .. Len(SplitKeys) : SplitKeys[i] = key

ItemOf(n, key) ==
    IF key \in {"x_train", "x_val", "x_test"}
    THEN [type |-> "DataFrame",
          cells |-> <<[str |-> "Fornecedor-" \o ToString(10 * n + KeyIndex(key))]>>]
    ELSE IF key = "categorical_cols"
    THEN [type |-> "list", cells |-> <<[str |-> "Fornecedor"]>>]
    ELSE [type |-> "Series", cells |-> <<[int |-> 10 * n + KeyIndex(key)]>>]

Bundle(n) == [key \in Range(SplitKeys) |-> ItemOf(n, key)]

PathArgs ==
    {[isStr |-> TRUE, parts |-> <<"outputs", "splits">>],
     [isStr |-> FALSE, parts |-> <<"/", "data", "splits">>]}

Tags == {None, Some(0), Some(1)}

\* The (directory argument, tag) pairs the runs use: a str without a tag
\* and with tag 0, a Path with tag 1.
Targets ==
    {tg \in PathArgs \X Tags :
        IF tg[1].isStr THEN tg[2] \in {None, Some(0)} ELSE tg[2] = Some(1)}

InitPersist ==
    /\ fs = NoFiles
    /\ saves = [n |-> 0, interrupted |-> 0, last |-> <<>>]
    /\ loaded = [called |-> FALSE]
    /\ SplitIdle /\ CountIdle /\ LoaderIdle /\ CatIdle /\ PoolIdle

Saved(output_dir, random_state, complete) ==
    [n |-> saves.n + 1,
     interrupted |-> saves.interrupted + (IF complete THEN 0 ELSE 1),
     last |-> <<[splits_data |-> Bundle(saves.n + 1), output_dir |-> output_dir,
                 random_state |-> random_state, complete |-> complete]>>]

\* A run of save_splits that returns.
SaveSplits ==
    /\ saves.n < MaxSaves
    /\ \E tg \in Targets :
           /\ fs' = SaveSplitsRun(fs, Bundle(saves.n + 1), tg[1], tg[2],
                                  Len(SplitKeys), None)
           /\ saves' = Saved(tg[1], tg[2], TRUE)
    /\ loaded' = [called |-> FALSE]
    /\ UNCHANGED <<splitVars, countRun, loader, catRun, poolRun>>

\* A run of save_splits whose process dies after the directory is made:
\* between two files (torn = None), or inside the write of a file, of which
\* then only a strict prefix has reached the disk.
SaveSplitsInterrupted ==
    /\ saves.n < MaxSaves
    /\ saves.interrupted < MaxInterrupted
    /\ \E tg \in Targets, count \in 0 .. (Len(SplitKeys) - 1) :
         \E torn \in {None} \cup
                {Some(n) : n \in 0 .. (Len(PickleDump(Bundle(saves.n + 1)[SplitKeys[count + 1]])) - 1)} :
           /\ fs' = SaveSplitsRun(fs, Bundle(saves.n + 1), tg[1], tg[2], count, torn)
           /\ saves' = Saved(tg[1], tg[2], FALSE)
    /\ loaded' = [called |-> FALSE]
    /\ UNCHANGED <<splitVars, countRun, loader, catRun, poolRun>>

\* A call of load_data_splits.
LoadDataSplitsCall ==
    /\ \E tg \in Targets :
           loaded' = [called |-> TRUE, splits_path |-> tg[1],
                      random_state |-> tg[2]]
                         @@ LoadDataSplits(fs, tg[1], tg[2])
    /\ UNCHANGED <<fs, saves, splitVars, countRun, loader, catRun, poolRun>>

NextPersist == SaveSplits \/ SaveSplitsInterrupted \/ LoadDataSplitsCall

SpecPersist == InitPersist /\ [][NextPersist]_vars

(***************************************************************************)
(* Properties of save_splits and load_data_splits.                         *)
(***************************************************************************)
\* The latest load was called with the arguments of the latest run of
\* save_splits, which returned, and nothing was saved in between.
LoadedAfterSave ==
    /\ loaded.called
    /\ saves.last # <<>>
    /\ saves.last[1].complete
    /\ loaded.splits_path = saves.last[1].output_dir
    /\ loaded.random_state = saves.last[1].random_state

\* C2: load_data_splits(root, tag) after save_splits(bundle, root, tag)
\* resolves the directory save_splits wrote and returns a mapping with
\* exactly the seven keys, each value equal to the value written, type
\* included.
RoundTrip ==
    LoadedAfterSave =>
        /\ LoadDir(loaded.splits_path, loaded.random_state)
             = SaveDir(saves.last[1].output_dir, saves.last[1].random_state)
        /\ loaded.err = "" /\ loaded.returned
        /\ DOMAIN loaded.data = Range(SplitKeys)
        /\ \A key \in Range(SplitKeys) :
               loaded.data[key] = saves.last[1].splits_data[key]

\* A round trip through the tag 0, and one without a tag.
RoundTripWitness ==
    /\ LoadedAfterSave
    /\ loaded.random_state = Some(0)
    /\ loaded.data["y_val"].cells[1] = [int |-> 10 * saves.n + 5]

\* The required files absent from a directory, by their position.
AbsentAt(dir) ==
    {i \in 1 .. Len(required_files) : ~FileExists(fs, dir, required_files[i])}

\* C3: when one of the seven files is absent from the resolved directory,
\* load_data_splits raises the missing-file error naming the first absent
\* file in the fixed order, having opened no file, and returns no mapping.
LoadFailsFast ==
    (loaded.called
       /\ AbsentAt(LoadDir(loaded.splits_path, loaded.random_state)) # {}) =>
        /\ loaded.err = "FileNotFoundError"
        /\ \E i \in AbsentAt(LoadDir(loaded.splits_path, loaded.random_state)) :
               /\ \A j \in AbsentAt(LoadDir(loaded.splits_path, loaded.random_state)) :
                      i <= j
               /\ loaded.missing = required_files[i]
        /\ loaded.opened = <<>>
        /\ ~loaded.returned
        /\ DOMAIN loaded.data = {}

\* A load from a directory that holds the first files and lacks a later one.
LoadFailsFastWitness ==
    /\ loaded.called
    /\ 1 \notin AbsentAt(LoadDir(loaded.splits_path, loaded.random_state))
    /\ 4 \in AbsentAt(LoadDir(loaded.splits_path, loaded.random_state))
    /\ loaded.err = "FileNotFoundError"

\* C4: load_data_splits either raises or returns seven items that all come
\* from one and the same run of save_splits.
LoadNeverMixesBundles ==
    (loaded.called /\ loaded.returned) =>
        \E n \in 1 .. saves.n :
            \A key \in Range(SplitKeys) : loaded.data[key] = Bundle(n)[key]

(***************************************************************************)
(* DataSplitter.load_dataset.  A file name is the sequence of its pieces:  *)
(* "." or a piece of text without a dot.                                   *)
(***************************************************************************)
NamePieces == {"dados", ".", "csv", "xlsx", "txt"}

\* Path.suffix: i = name.rfind('.'); name[i:] if 0 < i < len(name) - 1,
\* else ''  (a leading or a trailing dot starts no suffix).
LastDot(name) ==
    LET dots == {i \in 1 .. Len(name) : name[i] = "."}
    IN  IF dots = {} THEN 0 ELSE CHOOSE i \in dots : \A j \in dots : j <= i

Suffix(name) ==
    IF 1 < LastDot(name) /\ LastDot(name) < Len(name)
    THEN SubSeq(name, LastDot(name), Len(name))
    ELSE <<>>

\* pd.read_csv / pd.read_excel: a table, or the parser's error.
ReadTable(reader, entry) ==
    IF entry.readable
    THEN [err |-> "", reads |-> <<reader>>, table |-> <<"DataFrame">>]
    ELSE [err |-> "ParserError", reads |-> <<reader>>, table |-> <<>>]

\* The variant that looks at the extension before it looks for the file.
LoadDatasetSuffixFirst(name, entry) ==
    IF Suffix(name) \notin {<<".", "csv">>, <<".", "xlsx">>}
    THEN [err |-> "ValueError", reads |-> <<>>, table |-> <<>>]
    ELSE IF ~entry.exists
    THEN [err |-> "FileNotFoundError", reads |-> <<>>, table |-> <<>>]
    ELSE ReadTable(IF Suffix(name) = <<".", "csv">> THEN "read_csv"
                   ELSE "read_excel", entry)

LoadDataset(name, entry) ==
    IF ~entry.exists
    THEN [err |-> "FileNotFoundError", reads |-> <<>>, table |-> <<>>]
    ELSE IF Suffix(name) = <<".", "csv">> THEN ReadTable("read_csv", entry)
    ELSE IF Suffix(name) = <<".", "xlsx">> THEN ReadTable("read_excel", entry)
    ELSE [err |-> "ValueError", reads |-> <<>>, table |-> <<>>]

FileNames == UNION {[1 .. n -> NamePieces] : n \in 1 .. MaxNameLen}

\* What the disk holds at the path: nothing, or a file the reader of its
\* format can or cannot parse.
DiskEntries ==
    {[exists |-> FALSE, readable |-> FALSE],
     [exists |-> TRUE, readable |-> FALSE],
     [exists |-> TRUE, readable |-> TRUE]}

InitLoader ==
    /\ \E name \in FileNames, entry \in DiskEntries :
           loader = [called |-> FALSE, name |-> name, entry |-> entry]
    /\ SplitIdle /\ CountIdle /\ PersistIdle /\ CatIdle /\ PoolIdle

LoadDatasetCall ==
    /\ ~loader.called
    /\ loader' = [called |-> TRUE, name |-> loader.name, entry |-> loader.entry]
                     @@ LoadDataset(loader.name, loader.entry)
    /\ UNCHANGED <<splitVars, countRun, persistVars, catRun, poolRun>>

NextLoader == LoadDatasetCall

SpecLoader == InitLoader /\ [][NextLoader]_vars

IsCsvOrXlsx(name) ==
    \/ (Len(name) >= 3 /\ name[Len(name) - 1] = "." /\ name[Len(name)] = "csv")
    \/ (Len(name) >= 3 /\ name[Len(name) - 1] = "." /\ name[Len(name)] = "xlsx")

\* C5: a path that does not exist raises the not-found error, whatever its
\* extension, before any table is read; an existing path whose extension is
\* neither .csv nor .xlsx raises the unsupported-format error; a table is
\* returned only for an existing .csv or .xlsx path.
LoadDatasetDispatch ==
    loader.called =>
        /\ ~loader.entry.exists =>
               (loader.err = "FileNotFoundError" /\ loader.reads = <<>>
                  /\ loader.table = <<>>)
        /\ (loader.entry.exists /\ ~IsCsvOrXlsx(loader.name)) =>
               (loader.err = "ValueError" /\ loader.reads = <<>>
                  /\ loader.table = <<>>)
        /\ loader.table # <<>> =>
               (loader.entry.exists /\ IsCsvOrXlsx(loader.name) /\ loader.err = "")

\* A missing path with an unsupported extension, loaded.
LoadDatasetDispatchWitness ==
    /\ loader.called
    /\ ~loader.entry.exists
    /\ loader.name = <<"dados", ".", "txt">>
    /\ loader.err = "FileNotFoundError"

(***************************************************************************)
(* DataSplitter.identify_categorical_features.  The training table is its  *)
(* columns and the dtype of each.                                          *)
(***************************************************************************)
\* pandas dtypes, by their names (str(dtype)).
Dtypes ==
    {"int64", "float64", "bool", "datetime64[ns]", "object", "category", "string"}

\* x_train[col].dtype == 'object' or str(x_train[col].dtype) == 'category'
IdentifyCategoricalFeatures(x_train) ==
    SelectSeq(x_train.columns,
              LAMBDA col : x_train.dtype[col] = "object"
                             \/ x_train.dtype[col] = "category")

ColumnNames(n) == [i \in 1 .. n |-> "col" \o ToString(i)]

InitCat ==
    /\ \E n \in 1 .. MaxCols :
         \E dt \in [Range(ColumnNames(n)) -> Dtypes] :
           catRun = [called |-> FALSE,
                     x_train |-> [columns |-> ColumnNames(n), dtype |-> dt]]
    /\ SplitIdle /\ CountIdle /\ PersistIdle /\ LoaderIdle /\ PoolIdle

IdentifyCategoricalFeaturesCall ==
    /\ ~catRun.called
    /\ catRun' = [called |-> TRUE, x_train |-> catRun.x_train,
                  categorical_cols |-> IdentifyCategoricalFeatures(catRun.x_train)]
    /\ UNCHANGED <<splitVars, countRun, persistVars, loader, poolRun>>

NextCat == IdentifyCategoricalFeaturesCall

SpecCat == InitCat /\ [][NextCat]_vars

\* The dtypes of text and of enumerated (category-like) columns.
TextOrCategory == {"object", "string", "category"}

\* C9: the result is exactly the set of the columns whose value type is
\* text or category-like: every such column is in it and no other is.
CategoricalExactlyTextOrCategory ==
    catRun.called =>
        Range(catRun.categorical_cols)
          = {c \in Range(catRun.x_train.columns) :
                catRun.x_train.dtype[c] \in TextOrCategory}

(***************************************************************************)
(* catboost_pools (scripts/train_model.py).                                *)
(***************************************************************************)
\* The names bound in the module train_model when catboost_pools runs: the
\* import of Pool and the function itself.
TrainModelGlobals == {"Pool", "catboost_pools"}

\* catboost.Pool(x, y, cat_features=...): the library refuses a label
\* column of another length and a categorical column the table lacks.
PoolAccepts(x, y, cat_features) ==
    /\ x.nrows = y.nrows
    /\ Range(cat_features) \subseteq Range(x.columns)

Pool(x, y, cat_features) ==
    [data |-> x, label |-> y, cat_features |-> cat_features]

\* The body of catboost_pools: logger.info, three Pool constructions,
\* logger.info, return.  A name bound nowhere raises NameError.
CatboostPools(x_train, x_val, x_test, y_train, y_val, y_test, categorical_cols) ==
    IF "logger" \notin TrainModelGlobals
    THEN [err |-> "NameError", pools |-> <<>>]
    ELSE IF ~PoolAccepts(x_train, y_train, categorical_cols)
            \/ ~PoolAccepts(x_val, y_val, categorical_cols)
            \/ ~PoolAccepts(x_test, y_test, categorical_cols)
    THEN [err |-> "CatBoostError", pools |-> <<>>]
    ELSE [err |-> "",
          pools |-> <<Pool(x_train, y_train, categorical_cols),
                      Pool(x_val, y_val, categorical_cols),
                      Pool(x_test, y_test, categorical_cols)>>]

PoolTables == {[columns |-> <<"Fornecedor", "Valor">>, nrows |-> n] : n \in 1 .. MaxPoolRows}
PoolLabels == {[name |-> TargetCol, nrows |-> n] : n \in 1 .. MaxPoolRows}
PoolCategoricals == {<<>>, <<"Fornecedor">>, <<"Categoria">>}

InitPool ==
    /\ \E xs \in [Partitions -> PoolTables], ys \in [Partitions -> PoolLabels],
          cc \in PoolCategoricals :
           poolRun = [called |-> FALSE, x |-> xs, y |-> ys, categorical_cols |-> cc]
    /\ SplitIdle /\ CountIdle /\ PersistIdle /\ LoaderIdle /\ CatIdle

CatboostPoolsCall ==
    /\ ~poolRun.called
    /\ poolRun' = [poolRun EXCEPT !.called = TRUE]
                      @@ CatboostPools(poolRun.x["train"], poolRun.x["val"],
                                       poolRun.x["test"], poolRun.y["train"],
                                       poolRun.y["val"], poolRun.y["test"],
                                       poolRun.categorical_cols)
    /\ UNCHANGED <<splitVars, countRun, persistVars, loader, catRun>>

NextPool == CatboostPoolsCall

SpecPool == InitPool /\ [][NextPool]_vars

\* C10: for arguments the library accepts, catboost_pools returns the three
\* containers train, validation, test, each built from its feature table
\* and label column with the categorical column list, and fails in no way
\* of its own.
PoolsBuiltForAcceptedArguments ==
    (poolRun.called
       /\ \A p \in Partitions :
              PoolAccepts(poolRun.x[p], poolRun.y[p], poolRun.categorical_cols)) =>
        /\ poolRun.err = ""
        /\ poolRun.pools
             = <<Pool(poolRun.x["train"], poolRun.y["train"], poolRun.categorical_cols),
                 Pool(poolRun.x["val"], poolRun.y["val"], poolRun.categorical_cols),
                 Pool(poolRun.x["test"], poolRun.y["test"], poolRun.categorical_cols)>>

====
